---- MODULE Spec2Model ----
(***************************************************************************)
(* State-machine model of the GraphQL batching registry of                 *)
(* wrapper-gql-client (src/src/query.jsx, src/src/mutation.jsx,            *)
(* src/unnamed/part_000 = client + utils).                                 *)
(*                                                                         *)
(* Conventions                                                             *)
(*  - JavaScript arrays are 0-based; `queries` is a TLA+ sequence, so the  *)
(*    JavaScript index p is the sequence position p + 1.  Every index the  *)
(*    code computes (findIndex, pos) is kept 0-based, because the code     *)
(*    tests it for truthiness (`!pos`).                                    *)
(*  - `delete arr[p]` leaves a hole: the slot stays, the element is gone.  *)
(*    A hole is the entry Hole (present = FALSE).                          *)
(*  - `new GQLQuery()` throws (see Construct).  The receiver of the        *)
(*    registry methods is an object of the class whose containers were set *)
(*    by reset() (query.jsx:21-27), the one statement of the constructor   *)
(*    that completes; an instance of a subclass that defines               *)
(*    handleErrorResponse and handleResponse is such an object.            *)
(*  - Spec drives the registry through its methods set, unset, exec and    *)
(*    reset; SpecPipeline also calls __send and the response handlers, the *)
(*    part of the class exec does not get to.                              *)
(*  - `mutation` is a GQLMutation given the calls the GQLQuery is given;    *)
(*    it keeps what the override of __send can make differ.                *)
(*  - SpecRunner calls gqlQuery and gqlMutator.  SpecStore drives the      *)
(*    snapshot and the subscribers of a GQLQueryState                      *)
(*    (src/unnamed/part_002), SpecFetch its arguments and query(), and     *)
(*    SpecFetchPipeline also calls __onSuccess and __onError, the part     *)
(*    query() does not get to.                                             *)
(***************************************************************************)
EXTENDS Integers, Sequences, FiniteSets, TLC

VARIABLES
    queries,            \* this.queries          (query.jsx:23)
    directives,         \* this.directives       (query.jsx:24)
    successCallbacks,   \* this.successCallbacks (query.jsx:25)
    errorCallbacks,     \* this.errorCallbacks   (query.jsx:26)
    errors,             \* this.errors           (query.jsx:22)
    url,                \* GQLClient.prototype.url (part_000:13-17): configured?
    inflight,           \* transport requests whose promise has not settled
    transportCalls,     \* number of requests handed to the transport so far
    lastCall,           \* the last call made on the registry and its outcome
    mutation,           \* a GQLMutation given the same calls: what differs
    state,              \* GQLQueryState.state          (part_002:25)
    oldState,           \* GQLQueryState.oldState       (part_002:24)
    storeArgs,          \* GQLQueryState.args           (part_002:21)
    subscribers,        \* GQLQueryState.subscribers    (part_002:26)
    successCallback,    \* GQLQueryState.successCallback (part_002:112)
    errorCallback,      \* GQLQueryState.errorCallback  (part_002:113)
    storeCall           \* the last call made on the store and its outcome

\* the store
storeVars == <<state, oldState, storeArgs, subscribers, successCallback,
               errorCallback, storeCall>>

\* the registry, its GQLMutation twin and the client configuration
registryVars == <<queries, directives, successCallbacks, errorCallbacks,
                  errors, url, inflight, transportCalls, lastCall, mutation>>

vars == <<registryVars, storeVars>>

----------------------------------------------------------------------------
(* Bounds *)

\* longest `queries` array (holes included) the model lets set() build
MaxLen == 3

\* most transport requests counted
MaxCalls == 2

----------------------------------------------------------------------------
(* Input domains *)

\* JavaScript values are written as strings: a number as its digits ("7"),
\* a string in quotes ("'7'"), and undefined as
Undefined == "undefined"

\* names a caller registers queries under
Names == {"getUser", "getPost"}

\* the query text registered under each name
TextOf ==
    [n \in Names |->
        IF n = "getUser" THEN "getUser(id:$id){name}"
        ELSE "getPost(id:$id){title}"]

\* an argument map without arguments: {}
NoArgs == [k \in {} |-> [type |-> "", value |-> ""]]

\* argument maps: argName -> {type, value}
ArgMaps ==
    { NoArgs,
      [id |-> [type |-> "Int", value |-> "1"],
       tag |-> [type |-> "String", value |-> "'x'"]] }

\* callback values a caller passes as onSuccess / onError
Callbacks == {"cbA", "cbB"}

\* the `variables` argument of exec
NoVariables == [k \in {} |-> ""]

VariableMaps == { NoVariables, [id |-> "'7'", tag |-> "''"] }

\* the argument of set(): every well-formed registration, one without a
\* name and one without a query text
SetInputs ==
    { [nameOrAlias |-> n, args |-> a, query |-> TextOf[n],
       onSuccess |-> s, onError |-> e] :
         n \in Names, a \in ArgMaps,
         s \in Callbacks \cup {Undefined}, e \in Callbacks \cup {Undefined} }
    \cup { [nameOrAlias |-> "", args |-> NoArgs,
            query |-> "getUser(id:$id){name}",
            onSuccess |-> "cbA", onError |-> Undefined],
           [nameOrAlias |-> "getUser", args |-> NoArgs, query |-> "",
            onSuccess |-> "cbA", onError |-> Undefined] }

------------------------------------------------------------

\* what the transport answers to a request.
\*   kind   "reject": the request promise rejects with an Error whose
\*                    message is Head(messages)
\*          "fulfil": it fulfils with a response of the given shape
\*   shape  "falsy":  undefined / null
\*          "array":  a bare list of errors with the given messages
\*          "object": {data: {data, error, errors}}; hasErrors tells whether
\*                    the `errors` key is there, messages are its elements'
\*                    messages, error and data are lists of <<key, value>>
Answer(kind, shape, messages, hasErrors, error, data) ==
    [kind |-> kind, shape |-> shape, messages |-> messages,
     hasErrors |-> hasErrors, error |-> error, data |-> data]

Rejects(message) == Answer("reject", "", <<message>>, FALSE, <<>>, <<>>)

FulfilsFalsy == Answer("fulfil", "falsy", <<>>, FALSE, <<>>, <<>>)

FulfilsArray(messages) ==
    Answer("fulfil", "array", messages, FALSE, <<>>, <<>>)

FulfilsErrors(messages) ==
    Answer("fulfil", "object", messages, TRUE, <<>>, <<>>)

Fulfils(error, data) == Answer("fulfil", "object", <<>>, FALSE, error, data)

Answers ==
    { Rejects("network down"),
      FulfilsFalsy,
      FulfilsArray(<<>>),
      FulfilsArray(<<"boom", "final">>),
      FulfilsErrors(<<>>),
      FulfilsErrors(<<"boom", "final">>),
      Fulfils(<<>>, <<>>),
      Fulfils(<<>>, << <<"getUser", "A">> >>),
      Fulfils(<< <<"getPost", "denied">> >>, << <<"getUser", "A">> >>),
      Fulfils(<< <<"getUser", "denied">>, <<"getPost", "gone">> >>, <<>>),
      Fulfils(<<>>, << <<"getUser", "A">>, <<"getPost", "B">> >>) }

----------------------------------------------------------------------------
(* Values *)

\* `{}` as an error map: key -> {message, code}
EmptyMap == [k \in {} |-> [message |-> "", code |-> ""]]

\* a slot of `queries` emptied by `delete`
Hole == [present |-> FALSE, name |-> "", query |-> "", args |-> NoArgs]

\* the object literal {name: nameOrAlias, query, args} (query.jsx:103)
Entry(nameOrAlias, query, args) ==
    [present |-> TRUE, name |-> nameOrAlias, query |-> query, args |-> args]

\* no callback registered under any name
NoCallbacks == [n \in Names |-> Undefined]

\* Outcome of a call: how it completed and with what.
\*   kind  "return"    returned normally
\*         "throw"     threw synchronously; error names the error
\*         "sentinel"  returned Promise.resolve(true)
\*         "pending"   returned the promise of a transport request
\*         "resolved"  the promise resolved with [errors] (hasData FALSE)
\*                     or [errors, data]
\*         "rejected"  the promise rejected; error names the error
Outcome(kind, error, errs, hasData, data) ==
    [kind |-> kind, error |-> error, errors |-> errs, hasData |-> hasData,
     data |-> data]

Returned == Outcome("return", "", EmptyMap, FALSE, <<>>)

Thrown(error) == Outcome("throw", error, EmptyMap, FALSE, <<>>)

Sentinel == Outcome("sentinel", "", EmptyMap, FALSE, <<>>)

Pending == Outcome("pending", "", EmptyMap, FALSE, <<>>)

Resolved(errs, hasData, data) == Outcome("resolved", "", errs, hasData, data)

Rejected(error) == Outcome("rejected", error, EmptyMap, FALSE, <<>>)

\* no answer: the call is not one that reaches the transport
NoAnswer == Answer("none", "", <<>>, FALSE, <<>>, <<>>)

\* The record of a call on the registry: the method; its name argument; the
\* index it computed; the callbacks given to set; the variables given to
\* exec; how it completed; the transport's answer to the request it is
\* about; the callbacks it invoked, in order.
Call(op) ==
    [op |-> op, name |-> "", pos |-> -1,
     onSuccess |-> Undefined, onError |-> Undefined,
     variables |-> NoVariables,
     outcome |-> Returned, answer |-> NoAnswer, invoked |-> <<>>]

----------------------------------------------------------------------------
(* Utility layer (underscore) *)

\* _.isEmpty on a string
isEmpty(s) == s = "" \/ s = Undefined

\* JavaScript truthiness of a number
Truthy(n) == n # 0

\* _.findIndex(array, {name: n}): 0-based index of the first element that
\* matches, -1 when none does.  A hole is undefined and matches nothing.
RECURSIVE findIndexFrom(_, _, _)
findIndexFrom(array, name, i) ==
    IF i > Len(array) THEN -1
    ELSE IF array[i].present /\ array[i].name = name THEN i - 1
    ELSE findIndexFrom(array, name, i + 1)

findIndex(array, name) == findIndexFrom(array, name, 1)

\* arr[pos] = v for 0 <= pos <= arr.length
ArraySet(arr, pos, v) ==
    IF pos = Len(arr) THEN Append(arr, v)
    ELSE [arr EXCEPT ![pos + 1] = v]

\* delete arr[pos]: a position outside the array deletes nothing
ArrayDelete(arr, pos) ==
    IF pos >= 0 /\ pos < Len(arr) THEN [arr EXCEPT ![pos + 1] = Hole]
    ELSE arr

\* the elements Array.prototype.map visits: holes are skipped
RECURSIVE Present(_)
Present(arr) ==
    IF Len(arr) = 0 THEN <<>>
    ELSE IF Head(arr).present THEN <<Head(arr)>> \o Present(Tail(arr))
    ELSE Present(Tail(arr))

----------------------------------------------------------------------------
(* GQLQueryState: values *)

\* field names of the store's snapshot and argument names of its query
Fields == {"id", "a"}

\* marks a key an object does not have
Absent == "absent"

\* values a field holds: 0 (falsy) and 7
StoreValues == {"0", "7"}

\* JavaScript falsiness of a value read from an object; reading a key the
\* object does not have gives undefined
Falsy(v) == v \in {Absent, Undefined, "null", "false", "0", "''"}

\* the object {}
NoFields == [f \in Fields |-> Absent]

\* the keys of an object
Keys(obj) == {f \in Fields : obj[f] # Absent}

\* an argument that is not declared: this.args[key] is undefined
NotDeclared == [declared |-> FALSE, type |-> "", value |-> Undefined]

\* the argument declaration {type, value}
Declared(type, value) == [declared |-> TRUE, type |-> type, value |-> value]

\* `args` given to the constructor: none; id with the default 1; id without
\* a default
StoreArgMaps ==
    { [f \in Fields |-> NotDeclared],
      [f \in Fields |-> IF f = "id" THEN Declared("Int", "1")
                        ELSE NotDeclared],
      [f \in Fields |-> IF f = "id" THEN Declared("Int", Undefined)
                        ELSE NotDeclared] }

\* a value passed as a callback: a function with its name ("" when
\* anonymous), or a value that is not a function
Fn(id, name) == [id |-> id, name |-> name, function |-> TRUE]

onChange == Fn("onChange#1", "onChange")

\* a second, distinct function of the same name
onChangeToo == Fn("onChange#2", "onChange")

onSave == Fn("onSave", "onSave")

anonymous == Fn("anonymous", "")

notAFunction == [id |-> "'onChange'", name |-> "", function |-> FALSE]

\* values a caller passes to subscribe / unsubscribe
Callables == {onChange, onChangeToo, onSave, anonymous, notAFunction}

\* `subscribers` given to the constructor: the list is taken as it is
SubscriberLists ==
    { <<>>, <<onChange>>, <<onSave, onChange>>, <<onChange, onChangeToo>> }

\* `defaults` given to the constructor
DefaultStates ==
    { NoFields,
      [f \in Fields |-> IF f = "a" THEN "0" ELSE Absent],
      [f \in Fields |-> IF f = "id" THEN "7" ELSE Absent] }

\* false, the value of an empty callback slot (part_002:111, 129-130)
False == "false"

\* The record of a call on the store: the method; its name argument; its
\* value argument; the object argument of set, reset or __onSuccess; the
\* callback given to subscribe or unsubscribe; the callbacks given to
\* query() and the transport's answer to its request; the snapshot the call
\* found; what it returned or the error it threw; the subscriber
\* invocations it made, in order, each with the arguments (state, oldState)
\* handed over; the callbacks of query() it invoked.
StoreCall(op) ==
    [op |-> op, name |-> "", value |-> Undefined, snapshot |-> NoFields,
     callable |-> notAFunction, onSuccess |-> False, onError |-> False,
     answer |-> NoAnswer, before |-> NoFields,
     returned |-> Undefined, threw |-> "", notified |-> <<>>,
     invoked |-> <<>>]

\* new GQLQueryState({name, args, query, defaults, subscribers})
StoreConstructed(args, defaults, subs) ==
    /\ storeArgs = args
    /\ state = defaults
    /\ oldState = NoFields
    /\ subscribers = subs
    \* successCallback and errorCallback are not set by the constructor
    /\ successCallback = Undefined
    /\ errorCallback = Undefined
    /\ storeCall = StoreCall("new")

----------------------------------------------------------------------------
(* GQLQuery: registration *)

\* The GQLMutation twin after a call to a method it inherits unchanged:
\* the call completes as it does on the GQLQuery
MutationFollows ==
    mutation' = [mutation EXCEPT
                    !.outcome = lastCall'.outcome,
                    !.invoked = lastCall'.invoked]

\* reset(): every container emptied
ResetFields ==
    /\ errors' = EmptyMap
    /\ queries' = <<>>
    /\ directives' = <<>>
    /\ successCallbacks' = NoCallbacks
    /\ errorCallbacks' = NoCallbacks

\* The receiver after reset(), no request issued, the client configured.
Init ==
    /\ errors = EmptyMap
    /\ queries = <<>>
    /\ directives = <<>>
    /\ successCallbacks = NoCallbacks
    /\ errorCallbacks = NoCallbacks
    /\ url = TRUE
    /\ inflight = <<>>
    /\ transportCalls = 0
    /\ lastCall = Call("reset")
    /\ mutation = [errors |-> EmptyMap, inflight |-> <<>>,
                   outcome |-> Returned, invoked |-> <<>>]
    /\ StoreConstructed([f \in Fields |-> NotDeclared], NoFields, <<>>)

\* reset()
Reset ==
    /\ ResetFields
    /\ lastCall' = Call("reset")
    /\ mutation' = [mutation EXCEPT
                       !.errors = EmptyMap,
                       !.outcome = lastCall'.outcome,
                       !.invoked = lastCall'.invoked]
    /\ UNCHANGED <<url, inflight, transportCalls, storeVars>>

\* new GQLQuery(): reset() runs on the new object, then
\* `this.handleErrorResponse.bind(this)` reads `bind` of undefined (the class
\* has __handleErrorResponse, no handleErrorResponse) and throws; the caller
\* gets no object, and the receiver modelled here is not touched.
Construct ==
    /\ lastCall' = [Call("new") EXCEPT !.outcome = Thrown("TypeError")]
    /\ MutationFollows
    /\ UNCHANGED <<queries, directives, successCallbacks, errorCallbacks,
                   errors, url, inflight, transportCalls, storeVars>>

\* set() without the lookup: the entry always goes to the end
SetPosAppends(array, nameOrAlias) == Len(array)

\* where set() writes the entry: the index of the entry of that name, or
\* the end of the array when there is none
SetPos(array, nameOrAlias) ==
    LET pos == findIndex(array, nameOrAlias)
    IN  IF pos < 0 THEN Len(array) ELSE pos

\* the callback stored without the `if (cb)` test
StoreCallbackAlways(table, nameOrAlias, cb) ==
    [table EXCEPT ![nameOrAlias] = cb]

\* the callback table after `if (cb) table[nameOrAlias] = cb`
StoreCallback(table, nameOrAlias, cb) ==
    IF cb # Undefined THEN [table EXCEPT ![nameOrAlias] = cb] ELSE table

\* set({nameOrAlias, args, query, onSuccess, onError});
\* onSuccess / onError = Undefined when the caller omits them
Set(nameOrAlias, args, query, onSuccess, onError) ==
    IF isEmpty(nameOrAlias) \/ isEmpty(query) THEN
        /\ lastCall' = [Call("set") EXCEPT
                 !.name = nameOrAlias,
                 !.onSuccess = onSuccess,
                 !.onError = onError,
                 !.outcome = Thrown(IF isEmpty(nameOrAlias)
                                    THEN "Missing query name!"
                                    ELSE "Missing query definition!")]
        /\ MutationFollows
        /\ UNCHANGED <<queries, directives, successCallbacks, errorCallbacks,
                       errors, url, inflight, transportCalls, storeVars>>
    ELSE
        LET pos == SetPos(queries, nameOrAlias)
        IN  /\ pos < MaxLen
            /\ successCallbacks' =
                  StoreCallback(successCallbacks, nameOrAlias, onSuccess)
            /\ errorCallbacks' =
                  StoreCallback(errorCallbacks, nameOrAlias, onError)
            /\ queries' = ArraySet(queries, pos,
                                   Entry(nameOrAlias, query, args))
            /\ lastCall' = [Call("set") EXCEPT
                     !.name = nameOrAlias, !.pos = pos,
                     !.onSuccess = onSuccess, !.onError = onError]
            /\ MutationFollows
            /\ UNCHANGED <<directives, errors, url, inflight, transportCalls,
                           storeVars>>

\* whether unset() returns before the delete: `if (!pos) return;`
UnsetReturnsEarly(pos) == ~Truthy(pos)

\* unset(nameOrAlias)
Unset(nameOrAlias) ==
    LET pos == findIndex(queries, nameOrAlias)
    IN  /\ queries' = IF UnsetReturnsEarly(pos) THEN queries
                      ELSE ArrayDelete(queries, pos)
        /\ lastCall' = [Call("unset") EXCEPT !.name = nameOrAlias, !.pos = pos]
        /\ MutationFollows
        /\ UNCHANGED <<directives, successCallbacks, errorCallbacks, errors,
                       url, inflight, transportCalls, storeVars>>

----------------------------------------------------------------------------
(* GQLQuery: response handling *)

\* the methods of GQLQuery.prototype
Methods ==
    { "reset", "hasQueries", "get", "set", "unset", "exec", "__send",
      "__handleErrorResponse", "__serverError", "__handleResponse",
      "__execErrors", "__execSuccess", "__getQuery" }

\* the methods bound to the instance: the constructor's two bind statements
\* (query.jsx:14-15) name handleErrorResponse and handleResponse, which are
\* not methods, and the first of them throws; nothing is bound
Bound == {"handleErrorResponse", "handleResponse"} \cap Methods

\* What a handler did: threw = the error it threw ("" when it returned),
\* errs = this.errors afterwards, hasData/data = the second element of the
\* array it returned, invoked = the callbacks it called.
Handled(threw, errs, hasData, data, invoked) ==
    [threw |-> threw, errors |-> errs, hasData |-> hasData, data |-> data,
     invoked |-> invoked]

\* errs with errs.serverError = {message, code: "serverError"}
WithServerError(errs, message) ==
    [k \in DOMAIN errs \cup {"serverError"} |->
        IF k = "serverError"
        THEN [message |-> message, code |-> "serverError"]
        ELSE errs[k]]

\* __serverError(errors), `self` telling whether `this` is the registry;
\* messages are the messages of the elements of `errors`
__serverError(self, errs, messages) ==
    IF ~self \/ Len(messages) = 0
    THEN Handled("TypeError", errs, FALSE, <<>>, <<>>)
    ELSE Handled("", WithServerError(errs, messages[Len(messages)]),
                 FALSE, <<>>, <<>>)

\* __handleErrorResponse(err): calls this.serverError, which no object has
__handleErrorResponse(self, errs, message) ==
    IF ~self \/ "serverError" \notin Methods
    THEN Handled("TypeError", errs, FALSE, <<>>, <<>>)
    ELSE __serverError(self, errs, <<message>>)

\* the calls `table[key].call(null, payload[key], this)` made for the keys
\* of payload, in key order, where table has a callback for the key
RECURSIVE Invocations(_, _, _)
Invocations(kind, table, payload) ==
    IF Len(payload) = 0 THEN <<>>
    ELSE LET key == Head(payload)[1]
             cb == IF key \in DOMAIN table THEN table[key] ELSE Undefined
         IN  (IF cb = Undefined THEN <<>>
              ELSE << [kind |-> kind, key |-> key, callback |-> cb,
                       payload |-> Head(payload)[2], registry |-> TRUE] >>)
             \o Invocations(kind, table, Tail(payload))

\* __execErrors(errors)
__execErrors(ec, error) == Invocations("error", ec, error)

\* __execSuccess(data)
__execSuccess(sc, data) == Invocations("success", sc, data)

\* the message __handleResponse reports for a falsy response
SomethingWentWrong == "Something went wrong. Unable to process request!"

\* __handleResponse(res)
__handleResponse(self, errs, sc, ec, res) ==
    IF res.shape = "falsy" THEN
        __serverError(self, errs, <<SomethingWentWrong>>)
    ELSE IF res.shape = "array" THEN
        __serverError(self, errs, res.messages)
    ELSE IF res.hasErrors THEN
        \* `if (errors)`: a list is truthy, the empty one too
        __serverError(self, errs, res.messages)
    ELSE IF ~self THEN
        Handled("TypeError", errs, FALSE, <<>>, <<>>)
    ELSE
        Handled("", errs, TRUE, res.data,
                __execErrors(ec, res.error) \o __execSuccess(sc, res.data))

\* transport(...).catch(this.__handleErrorResponse)
\*               .then(this.__handleResponse)
\* for the transport's answer: what the last promise of the chain settles to
Chain(errs, sc, ec, answer) ==
    LET caught ==
            IF answer.kind = "reject"
            THEN __handleErrorResponse("__handleErrorResponse" \in Bound,
                                       errs, Head(answer.messages))
            ELSE Handled("", errs, FALSE, <<>>, <<>>)
        \* a rejection the catch handler recovers from hands its return
        \* value, the array [this.errors], to the next handler
        res == IF answer.kind = "reject"
               THEN FulfilsArray(<<Undefined>>)
               ELSE answer
    IN  IF caught.threw # "" THEN caught
        ELSE __handleResponse("__handleResponse" \in Bound,
                              caught.errors, sc, ec, res)

\* the outcome of a promise that settles as the handler completed
Settled(h) ==
    IF h.threw # "" THEN Rejected(h.threw)
    ELSE Resolved(h.errors, h.hasData, h.data)

----------------------------------------------------------------------------
(* GQLQuery: exec *)

\* the containers exec hands to __getQuery, and threw = the error that ended
\* the iteration ("" when none):
\*   queries    the texts pushed, one [name, text, refers] per entry, refers
\*              mapping each placeholder to the variable it was rewritten to
\*   queryArgs  [key, type] per renamed argument, in insertion order
\*   vars       [key, value] per renamed argument, in insertion order
Acc0 == [threw |-> "", queries |-> <<>>, queryArgs |-> <<>>, vars |-> <<>>]

\* __getQuery(query, queries, queryArgs, vars, variables): its first
\* statement reads `args`, which is no parameter, local, import or global
__getQuery(query, acc, variables) ==
    [acc EXCEPT !.threw = "ReferenceError"]

\* this.queries.map(query => this.__getQuery(...)): ends at the first throw
RECURSIVE MapGetQuery(_, _, _)
MapGetQuery(entries, acc, variables) ==
    IF Len(entries) = 0 \/ acc.threw # "" THEN acc
    ELSE MapGetQuery(Tail(entries),
                     __getQuery(Head(entries), acc, variables), variables)

\* the document and variables exec composes from the containers:
\* `WRAPPER($k: T ...) { body }` with the variables, or `{body}` with null
Compose(acc, dirs) ==
    [wrapped |-> Len(acc.queryArgs) > 0,
     decls |-> acc.queryArgs,
     body |-> acc.queries,
     directives |-> dirs,
     hasVariables |-> Len(acc.queryArgs) > 0,
     variables |-> acc.vars]

\* a request in flight
Request(origin, keyword, document, answer) ==
    [origin |-> origin, keyword |-> keyword, document |-> document,
     answer |-> answer]

\* this.errors after GQLMutation.__send: the override leaves it as it is
MutationSendErrors(errs) == errs

\* GQLMutation.__send(headers, query, variables) on the twin `m`
MutationSend(m, call, document) ==
    IF ~url THEN
        \* GQLClientMutation throws before it makes the request
        [m EXCEPT !.errors = MutationSendErrors(m.errors),
                  !.outcome = Thrown("GQL is not configured!"),
                  !.invoked = <<>>]
    ELSE
        [m EXCEPT !.errors = MutationSendErrors(m.errors),
                  !.inflight = Append(@, Request(call.op, "mutation",
                                                 document, call.answer)),
                  !.outcome = Pending,
                  !.invoked = <<>>]

\* __send(headers, query, variables) as part of `call`
SendFrom(call, document) ==
    /\ errors' = EmptyMap
    /\ IF ~url THEN
          \* GQLClientQuery throws before it makes the request
          /\ lastCall' = [call EXCEPT
                   !.outcome = Thrown("GQL is not configured!")]
          /\ UNCHANGED <<inflight, transportCalls>>
       ELSE
          /\ transportCalls < MaxCalls
          /\ inflight' = Append(inflight,
                                Request(call.op, "query", document,
                                        call.answer))
          /\ transportCalls' = transportCalls + 1
          /\ lastCall' = [call EXCEPT !.outcome = Pending]
    /\ mutation' = MutationSend(mutation, call, document)
    /\ UNCHANGED <<queries, directives, successCallbacks, errorCallbacks,
                   url, storeVars>>

\* exec(variables, headers); answer = what the transport answers to the
\* request of this call
Exec(variables, answer) ==
    LET acc == MapGetQuery(Present(queries), Acc0, variables)
        call == [Call("exec") EXCEPT
                    !.variables = variables, !.answer = answer]
    IN  IF acc.threw # "" THEN
            /\ lastCall' = [call EXCEPT !.outcome = Thrown(acc.threw)]
            /\ MutationFollows
            /\ UNCHANGED <<queries, directives, successCallbacks,
                           errorCallbacks, errors, url, inflight,
                           transportCalls, storeVars>>
        ELSE IF Len(acc.queries) = 0 THEN
            /\ lastCall' = [call EXCEPT !.outcome = Sentinel]
            /\ MutationFollows
            /\ UNCHANGED <<queries, directives, successCallbacks,
                           errorCallbacks, errors, url, inflight,
                           transportCalls, storeVars>>
        ELSE SendFrom(call, Compose(acc, directives))

\* GQLConfig({url}): sets the url every client sees
GQLConfig(u) ==
    /\ url' = u
    /\ lastCall' = Call("GQLConfig")
    /\ MutationFollows
    /\ UNCHANGED <<queries, directives, successCallbacks, errorCallbacks,
                   errors, inflight, transportCalls, storeVars>>

----------------------------------------------------------------------------
(* The single-shot runners gqlQuery and gqlMutator *)

\* the error `new GQLQuery()` / `new GQLMutation()` throws, "" when it
\* returns the object: the constructor binds this.handleErrorResponse
ConstructorThrows ==
    IF "handleErrorResponse" \in Methods /\ "handleResponse" \in Methods
    THEN ""
    ELSE "TypeError"

\* the error gql.set(query) throws, "" when the entry is registered
SetThrows(query) ==
    IF isEmpty(query.nameOrAlias) THEN "Missing query name!"
    ELSE IF isEmpty(query.query) THEN "Missing query definition!"
    ELSE ""

\* handleResponse of the runner, applied to what exec's promise resolved
\* with: the onError call it makes, handing over the error value under the
\* key, the object {message, code}, as the only argument, and whether the
\* call throws because onError is no function
RunnerHandleResponse(query, errs) ==
    LET OnError(key) ==
            IF query.onError = Undefined
            THEN [threw |-> "TypeError", invoked |-> <<>>]
            ELSE [threw |-> "",
                  invoked |-> << [kind |-> "error", key |-> key,
                                  callback |-> query.onError,
                                  payload |-> errs[key],
                                  registry |-> FALSE] >>]
    IN  IF "serverError" \in DOMAIN errs THEN OnError("serverError")
        ELSE IF query.name \in DOMAIN errs THEN OnError(query.name)
        ELSE [threw |-> "", invoked |-> <<>>]

\* gqlQuery(query, vars, headers) / gqlMutator(query, vars, headers), the
\* transport answering `answer`: outcome is how the call completed or what
\* its promise settled to, invoked the callbacks called on the way
Runner(query, variables, answer) ==
    LET entry == Entry(query.nameOrAlias, query.query, query.args)
        acc == MapGetQuery(<<entry>>, Acc0, variables)
        sc == [n \in {query.nameOrAlias} |-> query.onSuccess]
        ec == [n \in {query.nameOrAlias} |-> query.onError]
        h == Chain(EmptyMap, sc, ec, answer)
        last == RunnerHandleResponse(query, h.errors)
    IN  IF ConstructorThrows # "" THEN
            [outcome |-> Thrown(ConstructorThrows), invoked |-> <<>>]
        ELSE IF SetThrows(query) # "" THEN
            [outcome |-> Thrown(SetThrows(query)), invoked |-> <<>>]
        ELSE IF acc.threw # "" THEN
            [outcome |-> Thrown(acc.threw), invoked |-> <<>>]
        ELSE IF ~url THEN
            [outcome |-> Thrown("GQL is not configured!"), invoked |-> <<>>]
        ELSE IF h.threw # "" THEN
            [outcome |-> Rejected(h.threw), invoked |-> h.invoked]
        ELSE IF last.threw # "" THEN
            [outcome |-> Rejected(last.threw), invoked |-> h.invoked]
        ELSE
            [outcome |-> Settled(h), invoked |-> h.invoked \o last.invoked]

\* the call record of a runner
RunnerCall(op, query, variables, answer) ==
    LET r == Runner(query, variables, answer)
    IN  [Call(op) EXCEPT
            !.name = query.nameOrAlias,
            !.onSuccess = query.onSuccess, !.onError = query.onError,
            !.variables = variables, !.answer = answer,
            !.outcome = r.outcome, !.invoked = r.invoked]

\* gqlQuery(query, vars): a registry of its own, so the receiver of the
\* registry methods is not touched
GqlQuery(query, variables, answer) ==
    /\ lastCall' = RunnerCall("gqlQuery", query, variables, answer)
    /\ UNCHANGED <<queries, directives, successCallbacks, errorCallbacks,
                   errors, url, inflight, transportCalls, mutation,
                   storeVars>>

\* gqlMutator(query, vars)
GqlMutator(query, variables, answer) ==
    /\ lastCall' = RunnerCall("gqlMutator", query, variables, answer)
    /\ UNCHANGED <<queries, directives, successCallbacks, errorCallbacks,
                   errors, url, inflight, transportCalls, mutation,
                   storeVars>>

\* the entries handed to a runner: those of set(), which have no `name` key
RunnerInputs ==
    { [nameOrAlias |-> i.nameOrAlias, name |-> Undefined, args |-> i.args,
       query |-> i.query, onSuccess |-> i.onSuccess, onError |-> i.onError] :
        i \in SetInputs }

NextRunner ==
    \/ \E q \in RunnerInputs, v \in VariableMaps, r \in Answers :
          GqlQuery(q, v, r)
    \/ \E q \in RunnerInputs, v \in VariableMaps, r \in Answers :
          GqlMutator(q, v, r)

SpecRunner == Init /\ [][NextRunner]_vars

----------------------------------------------------------------------------
(* The registry as its callers drive it *)

Next ==
    \/ Reset
    \/ Construct
    \/ \E i \in SetInputs :
          Set(i.nameOrAlias, i.args, i.query, i.onSuccess, i.onError)
    \/ \E n \in Names : Unset(n)
    \/ \E v \in VariableMaps, r \in Answers : Exec(v, r)

Spec == Init /\ [][Next]_vars

----------------------------------------------------------------------------
(* The request pipeline driven step by step: __send called on the registry, *)
(* the transport settling a request in flight, and the handlers called as   *)
(* methods of the registry.                                                 *)

\* the document handed to __send when it is called directly
PlainDocument ==
    [wrapped |-> FALSE, decls |-> <<>>,
     body |-> << [name |-> "getUser", text |-> "getUser{name}",
                  refers |-> NoVariables] >>,
     directives |-> <<>>, hasVariables |-> FALSE, variables |-> <<>>]

\* gql.__send(headers, query, variables)
Send(answer) ==
    SendFrom([Call("__send") EXCEPT !.answer = answer], PlainDocument)

\* sequence `l` without its element at position i
RemoveAt(l, i) == SubSeq(l, 1, i - 1) \o SubSeq(l, i + 1, Len(l))

\* the transport settles the request at position i of those in flight: the
\* promise chain of __send runs its handlers
Settle(i) ==
    LET r == inflight[i]
        h == Chain(errors, successCallbacks, errorCallbacks, r.answer)
        mh == Chain(mutation.errors, successCallbacks, errorCallbacks,
                    mutation.inflight[i].answer)
    IN  /\ errors' = h.errors
        /\ inflight' = RemoveAt(inflight, i)
        /\ lastCall' = [Call("settle") EXCEPT
                           !.name = r.origin, !.answer = r.answer,
                           !.outcome = Settled(h), !.invoked = h.invoked]
        /\ mutation' = [errors |-> mh.errors,
                        inflight |-> RemoveAt(mutation.inflight, i),
                        outcome |-> Settled(mh), invoked |-> mh.invoked]
        /\ UNCHANGED <<queries, directives, successCallbacks, errorCallbacks,
                       url, transportCalls, storeVars>>

\* how a handler called as a method completes
Completed(h) ==
    IF h.threw # "" THEN Thrown(h.threw)
    ELSE Outcome("return", "", h.errors, h.hasData, h.data)

\* gql.__handleResponse(res)
HandleResponse(res) ==
    LET h == __handleResponse(TRUE, errors, successCallbacks, errorCallbacks,
                              res)
        mh == __handleResponse(TRUE, mutation.errors, successCallbacks,
                               errorCallbacks, res)
    IN  /\ errors' = h.errors
        /\ lastCall' = [Call("__handleResponse") EXCEPT
                           !.answer = res, !.outcome = Completed(h),
                           !.invoked = h.invoked]
        /\ mutation' = [mutation EXCEPT
                           !.errors = mh.errors, !.outcome = Completed(mh),
                           !.invoked = mh.invoked]
        /\ UNCHANGED <<queries, directives, successCallbacks, errorCallbacks,
                       url, inflight, transportCalls, storeVars>>

\* gql.__handleErrorResponse(err)
HandleErrorResponse(answer) ==
    LET h == __handleErrorResponse(TRUE, errors, Head(answer.messages))
        mh == __handleErrorResponse(TRUE, mutation.errors,
                                    Head(answer.messages))
    IN  /\ errors' = h.errors
        /\ lastCall' = [Call("__handleErrorResponse") EXCEPT
                           !.answer = answer, !.outcome = Completed(h),
                           !.invoked = h.invoked]
        /\ mutation' = [mutation EXCEPT
                           !.errors = mh.errors, !.outcome = Completed(mh),
                           !.invoked = mh.invoked]
        /\ UNCHANGED <<queries, directives, successCallbacks, errorCallbacks,
                       url, inflight, transportCalls, storeVars>>

\* registrations of the pipeline specification: getUser with both
\* callbacks, getPost with an error callback only
PipelineSetInputs ==
    {i \in SetInputs :
        /\ i.args = NoArgs
        /\ \/ /\ i.nameOrAlias = "getUser"
              /\ i.onSuccess = "cbA" /\ i.onError = "cbB"
           \/ /\ i.nameOrAlias = "getPost"
              /\ i.onSuccess = Undefined /\ i.onError = "cbA"}

NextPipeline ==
    \/ Reset
    \/ \E i \in PipelineSetInputs :
          Set(i.nameOrAlias, i.args, i.query, i.onSuccess, i.onError)
    \/ \E r \in Answers : Exec(NoVariables, r)
    \/ \E u \in BOOLEAN : GQLConfig(u)
    \/ \E r \in Answers : Send(r)
    \/ \E i \in 1..Len(inflight) : Settle(i)
    \/ \E r \in {a \in Answers : a.kind = "fulfil"} : HandleResponse(r)
    \/ \E r \in {a \in Answers : a.kind = "reject"} : HandleErrorResponse(r)

SpecPipeline == Init /\ [][NextPipeline]_vars

----------------------------------------------------------------------------
(* GQLQueryState: the snapshot *)

\* _.extend(target, patch): the keys of patch overwrite those of target
extend(target, patch) ==
    [f \in Fields |-> IF patch[f] # Absent THEN patch[f] ELSE target[f]]

\* _.omit(obj, name)
omit(obj, name) == [obj EXCEPT ![name] = Absent]

\* __callSubscribers(oldState) with this.state = st: the calls
\* cb.call(null, state, oldState, this), one per element of the list in list
\* order, state being a copy of this.state; none for an empty list
__callSubscribers(subs, st, old) ==
    [i \in 1..Len(subs) |->
        [subscriber |-> subs[i].id, state |-> st, oldState |-> old,
         store |-> TRUE]]

\* this.state after set(name, value): `object` tells whether name is an
\* object, which is then merged into the state
set(st, object, name, value, patch) ==
    IF object THEN extend(st, patch) ELSE [st EXCEPT ![name] = value]

\* set(name, value) and setSync(name, value)
StoreSet(sync, object, name, value, patch) ==
    LET after == set(state, object, name, value, patch)
    IN  /\ oldState' = state
        /\ state' = after
        /\ storeCall' = [StoreCall(IF sync THEN "setSync" ELSE "set") EXCEPT
                            !.name = name, !.value = value,
                            !.snapshot = patch, !.before = state,
                            !.notified =
                                IF sync
                                THEN __callSubscribers(subscribers, after,
                                                       state)
                                ELSE <<>>]
        /\ UNCHANGED <<storeArgs, subscribers, successCallback,
                       errorCallback, registryVars>>

\* unset(name): returns before anything when the field's value is falsy;
\* every path returns undefined
unset(st, old, name) ==
    IF Falsy(st[name])
    THEN [state |-> st, oldState |-> old, returned |-> Undefined]
    ELSE [state |-> omit(st, name), oldState |-> st, returned |-> Undefined]

\* unsetSync with the test of unset's return value left out
UnsetSyncGoesOnAlways(returned) == TRUE

\* whether unsetSync goes on to __callSubscribers:
\* `if (!this.unset(name)) return;`
UnsetSyncGoesOn(returned) == ~Falsy(returned)

\* unset(name) and unsetSync(name)
StoreUnset(sync, name) ==
    LET u == unset(state, oldState, name)
    IN  /\ state' = u.state
        /\ oldState' = u.oldState
        /\ storeCall' = [StoreCall(IF sync THEN "unsetSync" ELSE "unset")
                         EXCEPT
                            !.name = name, !.before = state,
                            !.notified =
                                IF sync /\ UnsetSyncGoesOn(u.returned)
                                THEN __callSubscribers(subscribers, u.state,
                                                       u.oldState)
                                ELSE <<>>]
        /\ UNCHANGED <<storeArgs, subscribers, successCallback,
                       errorCallback, registryVars>>

\* reset(state) and resetSync(state)
StoreReset(sync, snapshot) ==
    /\ oldState' = state
    /\ state' = snapshot
    /\ storeCall' = [StoreCall(IF sync THEN "resetSync" ELSE "reset") EXCEPT
                        !.snapshot = snapshot, !.before = state,
                        !.notified =
                            IF sync
                            THEN __callSubscribers(subscribers, snapshot,
                                                   state)
                            ELSE <<>>]
    /\ UNCHANGED <<storeArgs, subscribers, successCallback, errorCallback,
                   registryVars>>

----------------------------------------------------------------------------
(* GQLQueryState: subscribers *)

\* the test subscribe and unsubscribe start with: a named function
NamedFunction(callback) == callback.function /\ callback.name # ""

\* the positions of the subscribers named `name`
NamedAt(subs, name) == {i \in 1..Len(subs) : subs[i].name = name}

\* subscribe(callback)
Subscribe(callback) ==
    LET call == [StoreCall("subscribe") EXCEPT
                    !.callable = callback, !.before = state]
    IN  /\ IF ~NamedFunction(callback) THEN
               /\ subscribers' = subscribers
               /\ storeCall' = [call EXCEPT !.returned = "false"]
           ELSE IF NamedAt(subscribers, callback.name) # {} THEN
               \* a bare `return;`
               /\ subscribers' = subscribers
               /\ storeCall' = [call EXCEPT !.returned = Undefined]
           ELSE
               /\ subscribers' = Append(subscribers, callback)
               /\ storeCall' = [call EXCEPT !.returned = "true"]
        /\ UNCHANGED <<state, oldState, storeArgs, successCallback,
                       errorCallback, registryVars>>

\* unsubscribe(callback)
Unsubscribe(callback) ==
    LET call == [StoreCall("unsubscribe") EXCEPT
                    !.callable = callback, !.before = state]
    IN  /\ IF ~NamedFunction(callback) THEN
               /\ subscribers' = subscribers
               /\ storeCall' = [call EXCEPT !.returned = "false"]
           ELSE
               /\ subscribers' =
                     SelectSeq(subscribers,
                               LAMBDA cb : cb.name # callback.name)
               /\ storeCall' = [call EXCEPT !.returned = "true"]
        /\ UNCHANGED <<state, oldState, storeArgs, successCallback,
                       errorCallback, registryVars>>

----------------------------------------------------------------------------
(* GQLQueryState: arguments and query() *)

\* the name and the query text the store was constructed with
StoreName == "getUser"

\* setArgs({[key]: given}): a key not declared yet takes the declaration
\* {type: "Int", value: given}, a declared key takes `given` as its value
setArgs(declared, key, given) ==
    IF ~declared[key].declared
    THEN [declared EXCEPT ![key] = Declared("Int", given)]
    ELSE [declared EXCEPT ![key].value = given]

\* setArgs(args)
SetArgs(key, given) ==
    /\ storeArgs' = setArgs(storeArgs, key, given)
    /\ storeCall' = [StoreCall("setArgs") EXCEPT
                        !.name = key, !.value = given, !.before = state]
    /\ UNCHANGED <<state, oldState, subscribers, successCallback,
                   errorCallback, registryVars>>

\* getArg(name): this.state[name] || this.args[name].value || null
getArg(declared, st, name) ==
    IF ~declared[name].declared THEN "null"
    ELSE IF ~Falsy(st[name]) THEN st[name]
    ELSE IF ~Falsy(declared[name].value) THEN declared[name].value
    ELSE "null"

\* getArg(name)
GetArg(name) ==
    /\ storeCall' = [StoreCall("getArg") EXCEPT
                        !.name = name, !.before = state,
                        !.returned = getArg(storeArgs, state, name)]
    /\ UNCHANGED <<state, oldState, storeArgs, subscribers, successCallback,
                   errorCallback, registryVars>>

\* this.args after toQuery(): each declaration is handed over as it is and
\* its value overwritten with getArg(key)
toQueryArgs(declared, st) ==
    [f \in Fields |->
        IF declared[f].declared
        THEN [declared[f] EXCEPT !.value = getArg(declared, st, f)]
        ELSE declared[f]]

\* the object toQuery() returns: it has the key `name`, no `nameOrAlias`
toQuery(declared, st) ==
    LET after == toQueryArgs(declared, st)
    IN  [nameOrAlias |-> Undefined,
         name |-> StoreName,
         args |-> [f \in {k \in Fields : after[k].declared} |->
                      [type |-> after[f].type, value |-> after[f].value]],
         query |-> TextOf[StoreName],
         onSuccess |-> "__onSuccess",
         onError |-> "__onError"]

\* toQuery() called on its own: the declarations are overwritten, the
\* callbacks of query() are not touched, and the descriptor
\* toQuery(storeArgs, state) is returned
ToQuery ==
    /\ storeArgs' = toQueryArgs(storeArgs, state)
    /\ storeCall' = [StoreCall("toQuery") EXCEPT
                        !.before = state, !.returned = "object"]
    /\ UNCHANGED <<state, oldState, subscribers, successCallback,
                   errorCallback, registryVars>>

\* query(onSuccess, onError), the transport answering `answer`
Query(onSuccess, onError, answer) ==
    LET r == Runner(toQuery(storeArgs, state), NoVariables, answer)
        call == [StoreCall("query") EXCEPT
                    !.onSuccess = onSuccess, !.onError = onError,
                    !.answer = answer, !.before = state]
    IN  /\ successCallback' = onSuccess
        /\ errorCallback' = onError
        /\ storeArgs' = toQueryArgs(storeArgs, state)
        /\ storeCall' = IF r.outcome.kind = "throw"
                        THEN [call EXCEPT !.threw = r.outcome.error]
                        ELSE [call EXCEPT !.returned = "promise"]
        /\ UNCHANGED <<state, oldState, subscribers, registryVars>>

\* __onSuccess(res)
OnSuccess(res) ==
    /\ oldState' = state
    /\ state' = res
    /\ successCallback' = False
    /\ errorCallback' = False
    /\ storeCall' = [StoreCall("__onSuccess") EXCEPT
                        !.snapshot = res, !.before = state,
                        !.notified = __callSubscribers(subscribers, res,
                                                       state),
                        !.invoked =
                            IF Falsy(successCallback) THEN <<>>
                            ELSE << [callback |-> successCallback,
                                     state |-> res, store |-> TRUE] >>]
    /\ UNCHANGED <<storeArgs, subscribers, registryVars>>

\* __onError(err)
OnError(err) ==
    /\ successCallback' = False
    /\ errorCallback' = False
    /\ storeCall' = [StoreCall("__onError") EXCEPT
                        !.value = err, !.before = state,
                        !.invoked =
                            IF Falsy(errorCallback) THEN <<>>
                            ELSE << [callback |-> errorCallback,
                                     state |-> NoFields, store |-> TRUE] >>]
    /\ UNCHANGED <<state, oldState, storeArgs, subscribers, registryVars>>

----------------------------------------------------------------------------
(* The store as its callers drive it *)

\* the object given to set() in place of a name
Patches == { [f \in Fields |-> "7"] }

\* the states given to reset()
ResetStates ==
    { NoFields, [f \in Fields |-> IF f = "a" THEN "7" ELSE Absent] }

\* the callbacks given to query(): none, or a pair
QueryCallbacks == { <<False, False>>, <<"cbA", "cbB">>, <<"cbB", "cbA">> }

InitStore ==
    /\ errors = EmptyMap
    /\ queries = <<>>
    /\ directives = <<>>
    /\ successCallbacks = NoCallbacks
    /\ errorCallbacks = NoCallbacks
    /\ url = TRUE
    /\ inflight = <<>>
    /\ transportCalls = 0
    /\ lastCall = Call("reset")
    /\ mutation = [errors |-> EmptyMap, inflight |-> <<>>,
                   outcome |-> Returned, invoked |-> <<>>]
    /\ \E declared \in StoreArgMaps, defaults \in DefaultStates,
          subs \in SubscriberLists :
          StoreConstructed(declared, defaults, subs)

NextStore ==
    \/ \E sync \in BOOLEAN, f \in Fields, v \in StoreValues :
          StoreSet(sync, FALSE, f, v, NoFields)
    \/ \E sync \in BOOLEAN, p \in Patches :
          StoreSet(sync, TRUE, "", Undefined, p)
    \/ \E sync \in BOOLEAN, f \in Fields : StoreUnset(sync, f)
    \/ \E sync \in BOOLEAN, snapshot \in ResetStates :
          StoreReset(sync, snapshot)
    \/ \E cb \in Callables : Subscribe(cb)
    \/ \E cb \in Callables : Unsubscribe(cb)

SpecStore == InitStore /\ [][NextStore]_vars

\* the store's arguments and its fetch
NextFetch ==
    \/ \E f \in Fields, v \in StoreValues :
          StoreSet(FALSE, FALSE, f, v, NoFields)
    \/ \E f \in Fields : StoreUnset(FALSE, f)
    \/ \E snapshot \in ResetStates : StoreReset(FALSE, snapshot)
    \/ SetArgs("id", "5")
    \/ \E f \in Fields : GetArg(f)
    \/ ToQuery
    \/ \E cbs \in QueryCallbacks, r \in Answers : Query(cbs[1], cbs[2], r)

SpecFetch == InitStore /\ [][NextFetch]_vars

\* the fetch with __onSuccess and __onError called on the store, the part
\* query() does not get to
NextFetchPipeline ==
    \/ \E cbs \in QueryCallbacks : Query(cbs[1], cbs[2], Fulfils(<<>>, <<>>))
    \/ \E sync \in BOOLEAN, f \in Fields, v \in StoreValues :
          StoreSet(sync, FALSE, f, v, NoFields)
    \/ \E res \in ResetStates : OnSuccess(res)
    \/ OnError("denied")

SpecFetchPipeline == InitStore /\ [][NextFetchPipeline]_vars

----------------------------------------------------------------------------
(* Properties of registration *)

\* the positions of `arr` that hold an entry
Slots(arr) == {i \in 1..Len(arr) : arr[i].present}

\* the positions of `arr` that hold an entry of the given name
SlotsOf(arr, name) == {i \in Slots(arr) : arr[i].name = name}

\* the step is a completed set(), unset(), exec()
SetStep == lastCall'.op = "set" /\ lastCall'.outcome.kind = "return"

UnsetStep == lastCall'.op = "unset"

ExecStep == lastCall'.op = "exec"

\* no two registered entries share a name
UniqueNames ==
    \A i, j \in Slots(queries) : queries[i].name = queries[j].name => i = j

\* a set for a registered name replaces the entry where it is; a set for a
\* new name appends
SetInPlaceOrAppends ==
    SetStep =>
        LET n == lastCall'.name
        IN  IF SlotsOf(queries, n) # {}
            THEN /\ Len(queries') = Len(queries)
                 /\ Slots(queries') = Slots(queries)
                 /\ SlotsOf(queries', n) = SlotsOf(queries, n)
                 /\ \A i \in Slots(queries) \ SlotsOf(queries, n) :
                       queries'[i] = queries[i]
            ELSE /\ Len(queries') = Len(queries) + 1
                 /\ SubSeq(queries', 1, Len(queries)) = queries
                 /\ SlotsOf(queries', n) = {Len(queries')}

\* C1: after any sequence of set and unset calls no two registered entries
\* share a name; a set for a registered name replaces that entry at its
\* position (order of the entries unchanged, no entry added) and a set for a
\* new name appends at the end.
C1_UniqueNamesSetInPlace == []UniqueNames /\ [][SetInPlaceOrAppends]_vars

\* C1 witness: the last call re-registered the first of two entries, with
\* other arguments than the second has
C1_Witness ==
    /\ lastCall.op = "set" /\ lastCall.outcome.kind = "return"
    /\ lastCall.pos = 0
    /\ Slots(queries) = {1, 2}
    /\ queries[1].args # NoArgs

\* unset(name) leaves no entry of that name and every other entry as it was
UnsetRemoves ==
    UnsetStep =>
        LET n == lastCall'.name
        IN  /\ lastCall'.outcome.kind = "return"
            /\ SlotsOf(queries', n) = {}
            /\ Slots(queries') = Slots(queries) \ SlotsOf(queries, n)
            /\ \A i \in Slots(queries') : queries'[i] = queries[i]

\* C2: for every registered name, at any position including index 0,
\* unset(name) leaves the registry with no entry of that name and every
\* other entry unchanged; unset of an unregistered name changes nothing and
\* raises no error.
C2_UnsetRemovesEntry == [][UnsetRemoves]_vars

\* C10: a set that omits onSuccess (onError) leaves the success (error)
\* callback registered under that name unchanged; a set that supplies one
\* overwrites that callback under that name; the callbacks of every other
\* name, and of the other kind, are unchanged.
SetCallbacksFrame ==
    SetStep =>
        LET n == lastCall'.name
        IN  /\ \A m \in Names \ {n} :
                  /\ successCallbacks'[m] = successCallbacks[m]
                  /\ errorCallbacks'[m] = errorCallbacks[m]
            /\ successCallbacks'[n] =
                  IF lastCall'.onSuccess = Undefined THEN successCallbacks[n]
                  ELSE lastCall'.onSuccess
            /\ errorCallbacks'[n] =
                  IF lastCall'.onError = Undefined THEN errorCallbacks[n]
                  ELSE lastCall'.onError

C10_SetCallbacksFrame == [][SetCallbacksFrame]_vars

\* C10 witness: the last set named getUser, gave an onError and no
\* onSuccess; getUser keeps an earlier success callback, and getPost its own
\* callbacks
C10_Witness ==
    /\ lastCall.op = "set" /\ lastCall.outcome.kind = "return"
    /\ lastCall.name = "getUser"
    /\ lastCall.onSuccess = Undefined /\ lastCall.onError = "cbB"
    /\ successCallbacks["getUser"] = "cbA"
    /\ errorCallbacks["getUser"] = "cbB"
    /\ successCallbacks["getPost"] = "cbB"
    /\ errorCallbacks["getPost"] = "cbA"

----------------------------------------------------------------------------
(* Properties of exec *)

\* C3: one exec issues no transport call when the registry holds no entry
\* (it resolves at once) and exactly one transport call when an entry is
\* registered.
ExecCallsTransportOnce ==
    ExecStep =>
        IF Slots(queries) = {}
        THEN /\ lastCall'.outcome.kind = "sentinel"
             /\ transportCalls' = transportCalls
        ELSE /\ lastCall'.outcome.kind = "pending"
             /\ transportCalls' = transportCalls + 1

C3_ExecCallsTransportOnce == [][ExecCallsTransportOnce]_vars

\* the request the last call handed to the transport
LastRequest == inflight[Len(inflight)]

\* the name `${name}_${key}` an argument is sent under
Renamed(name, key) == <<name, "_", key>>

\* the (entry, argument) pairs of the registry
DeclaredArgs ==
    {<<i, k>> : i \in Slots(queries), k \in {"id", "tag"}} \cap
    {p \in Nat \X STRING : p[2] \in DOMAIN queries[p[1]].args}

\* the positions of list `l` whose key is `key`
KeyedAt(l, key) == {d \in 1..Len(l) : l[d].key = key}

\* two registered entries declare an argument of the same short name
SharedArgName ==
    \E p, q \in DeclaredArgs : p[1] # q[1] /\ p[2] = q[2]

\* C4: for two registered entries whose argument maps share a short name,
\* exec composes a document that declares one variable queryName_argName per
\* (entry, argument), all distinct, sends one value per such variable, and
\* each entry's text refers to its own renamed variable.
C4_RenamedVariablesDistinct ==
    lastCall.op = "exec" /\ SharedArgName =>
        /\ lastCall.outcome.kind = "pending"
        /\ LET doc == LastRequest.document
           IN  /\ doc.wrapped
               /\ Len(doc.body) = Cardinality(Slots(queries))
               /\ \A p \in DeclaredArgs :
                     LET e == queries[p[1]]
                         v == Renamed(e.name, p[2])
                     IN  /\ Cardinality(KeyedAt(doc.decls, v)) = 1
                         /\ \A d \in KeyedAt(doc.decls, v) :
                               doc.decls[d].type = e.args[p[2]].type
                         /\ Cardinality(KeyedAt(doc.variables, v)) = 1
                         /\ \E b \in 1..Len(doc.body) :
                               /\ doc.body[b].name = e.name
                               /\ doc.body[b].refers[p[2]] = v
               /\ Len(doc.decls) = Cardinality(DeclaredArgs)
               /\ Len(doc.variables) = Cardinality(DeclaredArgs)

\* parseInt on the values of the model
ParseInt(v) ==
    IF v \in {"7", "'7'"} THEN "7"
    ELSE IF v \in {"1", "'1'"} THEN "1"
    ELSE IF v \in {"0", "'0'"} THEN "0"
    ELSE "NaN"

\* the integers among the values of the model
IntegerValues == {"0", "1", "7"}

\* the value the claim has exec send for an argument: the caller's value
\* when `variables` has the name, the declared default otherwise, as an
\* integer when the declared type matches /Int/
ValueToSend(arg, variables, key) ==
    LET v == IF key \in DOMAIN variables THEN variables[key] ELSE arg.value
    IN  IF arg.type = "Int" THEN ParseInt(v) ELSE v

\* C5: for every declared argument, when the variables passed to exec hold
\* a value for its name (0, false and '' included) the variable sent carries
\* the caller's value, not the default; the default is sent only when the
\* caller gives no value for that name.
C5_CallerValueWins ==
    lastCall.op = "exec" /\ DeclaredArgs # {} =>
        /\ lastCall.outcome.kind = "pending"
        /\ \A p \in DeclaredArgs :
              LET e == queries[p[1]]
                  sent == LastRequest.document.variables
              IN  \A d \in KeyedAt(sent, Renamed(e.name, p[2])) :
                     sent[d].value =
                        ValueToSend(e.args[p[2]], lastCall.variables, p[2])

\* C6: for every declared argument whose type matches the integer pattern,
\* the variable value exec sends is an integer, whatever the value resolved.
C6_IntArgumentsAreIntegers ==
    lastCall.op = "exec"
    /\ (\E p \in DeclaredArgs : queries[p[1]].args[p[2]].type = "Int") =>
        /\ lastCall.outcome.kind = "pending"
        /\ \A p \in DeclaredArgs :
              LET e == queries[p[1]]
                  sent == LastRequest.document.variables
              IN  e.args[p[2]].type = "Int" =>
                     /\ KeyedAt(sent, Renamed(e.name, p[2])) # {}
                     /\ \A d \in KeyedAt(sent, Renamed(e.name, p[2])) :
                           sent[d].value \in IntegerValues

----------------------------------------------------------------------------
(* Properties of response handling *)

\* the registry holds an entry
HasEntries == Slots(queries) # {}

\* the response carries a non-empty top-level errors list, or is one
CarriesErrors(answer) ==
    /\ answer.kind = "fulfil"
    /\ answer.shape = "array" \/ (answer.shape = "object" /\ answer.hasErrors)
    /\ Len(answer.messages) > 0

\* the response is an object whose errors list is absent or empty
CarriesNoErrors(answer) ==
    /\ answer.kind = "fulfil"
    /\ answer.shape = "object"
    /\ ~answer.hasErrors \/ Len(answer.messages) = 0

\* the error map {serverError: {message, code: "serverError"}}
ServerErrorMap(message) ==
    [k \in {"serverError"} |-> [message |-> message, code |-> "serverError"]]

\* the invocations of the given kind among those of the last call
InvokedOf(kind) ==
    {d \in 1..Len(lastCall.invoked) : lastCall.invoked[d].kind = kind}

\* per-name dispatch of (error, data) took place: each callback registered
\* under a key of the object was invoked once with that key's value and the
\* registry, no other callback was, and error callbacks came first
Dispatched(error, data) ==
    LET inv == lastCall.invoked
        Due(kind, table, payload) ==
            {d \in 1..Len(payload) :
                /\ payload[d][1] \in DOMAIN table
                /\ table[payload[d][1]] # Undefined}
        Served(kind, table, payload) ==
            /\ \A d \in Due(kind, table, payload) :
                  Cardinality({c \in InvokedOf(kind) :
                      /\ inv[c].key = payload[d][1]
                      /\ inv[c].callback = table[payload[d][1]]
                      /\ inv[c].payload = payload[d][2]
                      /\ inv[c].registry}) = 1
            /\ Cardinality(InvokedOf(kind)) =
                  Cardinality(Due(kind, table, payload))
    IN  /\ Served("error", errorCallbacks, error)
        /\ Served("success", successCallbacks, data)
        /\ \A c \in InvokedOf("error"), d \in InvokedOf("success") : c < d

\* C7: when the response carries a non-empty top-level errors list, or is a
\* non-empty list, exec resolves with the error map {serverError: {message:
\* m, code: "serverError"}}, m the message of the last element, and no
\* per-name callback is invoked; when the errors list is absent or empty,
\* exec resolves with an error map without serverError after per-name
\* dispatch.
C7_ServerErrorLastWins ==
    /\ lastCall.op = "exec" /\ HasEntries /\ lastCall.answer.kind = "fulfil"
          => lastCall.outcome.kind = "pending"
    /\ lastCall.op = "settle" /\ CarriesErrors(lastCall.answer) =>
          /\ lastCall.outcome.kind = "resolved"
          /\ lastCall.outcome.errors =
                ServerErrorMap(lastCall.answer.messages[
                                   Len(lastCall.answer.messages)])
          /\ lastCall.invoked = <<>>
    /\ lastCall.op = "settle" /\ CarriesNoErrors(lastCall.answer) =>
          /\ lastCall.outcome.kind = "resolved"
          /\ "serverError" \notin DOMAIN lastCall.outcome.errors
          /\ Dispatched(lastCall.answer.error, lastCall.answer.data)

\* C8: when the transport call of an exec fails, the promise exec returned
\* resolves with an error map whose serverError is {message: the failure's
\* message, code: "serverError"}; no transport failure and no error the
\* server reports makes the promise reject.
C8_FailuresResolve ==
    /\ lastCall.op = "exec" /\ HasEntries /\ lastCall.answer.kind = "reject"
          => lastCall.outcome.kind = "pending"
    /\ lastCall.op = "settle" => lastCall.outcome.kind = "resolved"
    /\ lastCall.op = "settle" /\ lastCall.answer.kind = "reject" =>
          /\ "serverError" \in DOMAIN lastCall.outcome.errors
          /\ lastCall.outcome.errors["serverError"] =
                [message |-> Head(lastCall.answer.messages),
                 code |-> "serverError"]

\* C9: for a response without top-level errors, exec invokes once each error
\* callback registered under a key of the response's error object and once
\* each success callback registered under a key of data, each with the
\* key's value and the registry, error callbacks first, no other callback,
\* and resolves with [error map, data], data being the response's data.
C9_DispatchPerName ==
    LET plain == /\ lastCall.answer.kind = "fulfil"
                 /\ lastCall.answer.shape = "object"
                 /\ ~lastCall.answer.hasErrors
    IN  /\ lastCall.op = "exec" /\ HasEntries /\ plain
              => lastCall.outcome.kind = "pending"
        /\ lastCall.op = "settle" /\ plain =>
              /\ lastCall.outcome.kind = "resolved"
              /\ lastCall.outcome.hasData
              /\ lastCall.outcome.data = lastCall.answer.data
              /\ Dispatched(lastCall.answer.error, lastCall.answer.data)

----------------------------------------------------------------------------
(* What the pipeline does when it is driven step by step (SpecPipeline) *)

\* every request __send makes ends in a promise rejected with TypeError:
\* the handlers run without `this`
SettleRejects ==
    lastCall.op = "settle" => lastCall.outcome = Rejected("TypeError")

\* __handleResponse called on the registry: a non-empty errors list gives
\* the serverError entry of its last message and no callback; an empty
\* errors list throws; a response without errors is dispatched per name
HandleResponseAsMethod ==
    lastCall.op = "__handleResponse" =>
        LET res == lastCall.answer
        IN  /\ CarriesErrors(res) =>
                  /\ lastCall.outcome.kind = "return"
                  /\ lastCall.outcome.errors =
                        ServerErrorMap(res.messages[Len(res.messages)])
                  /\ ~lastCall.outcome.hasData
                  /\ lastCall.invoked = <<>>
            /\ res.shape \in {"array", "object"} /\ ~CarriesErrors(res)
               /\ (res.shape = "array" \/ res.hasErrors) =>
                  lastCall.outcome = Thrown("TypeError")
            /\ res.shape = "object" /\ ~res.hasErrors =>
                  /\ lastCall.outcome.kind = "return"
                  /\ lastCall.outcome.hasData
                  /\ lastCall.outcome.data = res.data
                  /\ Dispatched(res.error, res.data)

\* __handleErrorResponse called on the registry throws
HandleErrorResponseAsMethod ==
    lastCall.op = "__handleErrorResponse" =>
        lastCall.outcome = Thrown("TypeError")

----------------------------------------------------------------------------
(* Properties of GQLMutation *)

\* the request a GQLMutation makes where a GQLQuery makes `request`: the
\* same body and variables under the keyword "mutation"
AsMutation(request) == [request EXCEPT !.keyword = "mutation"]

\* the twin has made the requests of the GQLQuery, has invoked the same
\* callbacks and its last call completed with the same [error map, data]
MutationAgrees ==
    /\ Len(mutation.inflight) = Len(inflight)
    /\ \A i \in 1..Len(inflight) :
          mutation.inflight[i] = AsMutation(inflight[i])
    /\ mutation.invoked = lastCall.invoked
    /\ mutation.outcome = lastCall.outcome

\* C11: given the same set/unset registrations, the same exec calls and the
\* same transport responses, a GQLMutation composes the same document body
\* and variables, invokes the same callbacks and resolves every exec with
\* the same [error map, data] as a GQLQuery, the keyword of the document
\* being the only difference: an exec on a registry that holds an entry
\* hands the transport a document under the keyword "mutation", and every
\* call completes on the twin as it does on the GQLQuery.
C11_MutationAsQuery ==
    /\ MutationAgrees
    /\ lastCall.op = "exec" /\ HasEntries =>
          /\ mutation.outcome.kind = "pending"
          /\ mutation.inflight # <<>>
          /\ mutation.inflight[Len(mutation.inflight)].keyword = "mutation"

\* the twin keeps the error map of the GQLQuery
MutationErrorsAgree == mutation.errors = errors

----------------------------------------------------------------------------
(* Properties of the runners *)

\* the last call is a runner given an entry with an onError callback
RunnerWithOnError ==
    /\ lastCall.op \in {"gqlQuery", "gqlMutator"}
    /\ lastCall.onError # Undefined

\* the response gives the error map a serverError entry: the transport
\* rejected, answered nothing, or answered a non-empty errors list
YieldsServerError(answer) ==
    answer.kind = "reject" \/ answer.shape = "falsy" \/ CarriesErrors(answer)

\* the value under `key` of the response's error object, <<>> when none
ErrorUnder(answer, key) ==
    IF CarriesNoErrors(answer)
    THEN SelectSeq(answer.error, LAMBDA e : e[1] = key)
    ELSE <<>>

\* the onError calls the last call made
OnErrorCalls ==
    SelectSeq(lastCall.invoked,
              LAMBDA c : c.kind = "error" /\ c.callback = lastCall.onError
                         /\ ~c.registry)

\* C12: a runner (gqlQuery or gqlMutator) given an entry with an onError
\* callback invokes it with the serverError value when the response yields
\* a serverError, with the value under the entry's name when the response's
\* error object has a key equal to that name, and not at all when neither
\* is present.
C12_RunnerRoutesErrors ==
    RunnerWithOnError =>
        LET res == lastCall.answer
            own == ErrorUnder(res, lastCall.name)
        IN  /\ YieldsServerError(res) =>
                  /\ Len(OnErrorCalls) = 1
                  /\ OnErrorCalls[1].key = "serverError"
                  /\ OnErrorCalls[1].payload.code = "serverError"
            /\ ~YieldsServerError(res) /\ own # <<>> =>
                  /\ Len(OnErrorCalls) = 1
                  /\ OnErrorCalls[1].key = lastCall.name
            /\ ~YieldsServerError(res) /\ own = <<>> =>
                  OnErrorCalls = <<>>

\* every runner call throws TypeError before a registry exists
RunnerThrows ==
    lastCall.op \in {"gqlQuery", "gqlMutator"} =>
        lastCall.outcome = Thrown("TypeError") /\ lastCall.invoked = <<>>

----------------------------------------------------------------------------
(* Properties of the store's fetch *)

\* the response is a successful one with data under `name`
SuccessFor(answer, name) ==
    /\ CarriesNoErrors(answer)
    /\ \E d \in 1..Len(answer.data) : answer.data[d][1] = name

\* the last call invoked every subscriber once, in subscription order
NotifiedOnce ==
    /\ Len(storeCall.notified) = Len(subscribers)
    /\ \A i \in 1..Len(subscribers) :
          storeCall.notified[i].subscriber = subscribers[i].id

\* a query() call answered with data under the store's name returns the
\* promise of its request; when the payload arrives (__onSuccess) the
\* snapshot becomes the payload, every subscriber is notified once and the
\* onSuccess given to query() is invoked
FetchReplacesSnapshot ==
    /\ storeCall'.op = "query" /\ SuccessFor(storeCall'.answer, StoreName) =>
          /\ storeCall'.threw = ""
          /\ storeCall'.returned = "promise"
    /\ storeCall'.op = "__onSuccess" =>
          /\ state' = storeCall'.snapshot
          /\ NotifiedOnce'
          /\ ~Falsy(successCallback) =>
                /\ Len(storeCall'.invoked) = 1
                /\ storeCall'.invoked[1].callback = successCallback

\* C13: when a store's query() is issued and the transport returns a
\* successful response with data under the store's query name, then by the
\* time the returned promise resolves the snapshot equals that payload
\* exactly, every subscriber has been notified once and the onSuccess
\* passed to query() has been invoked.
C13_FetchReplacesSnapshot == [][FetchReplacesSnapshot]_vars

\* every query() call throws TypeError and leaves the snapshot as it found
\* it, with no subscriber notified and no callback invoked
QueryThrows ==
    storeCall.op = "query" =>
        /\ storeCall.threw = "TypeError"
        /\ state = storeCall.before
        /\ storeCall.notified = <<>>
        /\ storeCall.invoked = <<>>

----------------------------------------------------------------------------
(* Properties of the store's snapshot and notifications *)

\* the last call is one that notifies: setSync, resetSync, the arrival of
\* a fetched payload, or unsetSync of a field the snapshot held
Notifying ==
    \/ storeCall.op \in {"setSync", "resetSync", "__onSuccess"}
    \/ /\ storeCall.op = "unsetSync"
       /\ storeCall.before[storeCall.name] # Absent

\* what the subscribers are owed by the last call: one invocation each, in
\* subscription order, with the snapshot as it is now, the snapshot the call
\* found, and the store
Owed ==
    [i \in 1..Len(subscribers) |->
        [subscriber |-> subscribers[i].id, state |-> state,
         oldState |-> storeCall.before, store |-> TRUE]]

\* C14: on every notifying store call (setSync, unsetSync, resetSync,
\* successful fetch) each subscriber is invoked exactly once, in
\* subscription order, with (a copy of the snapshot as it is after the
\* call, the snapshot as it was immediately before the call, the store).
C14_NotificationArguments == Notifying => storeCall.notified = Owed

\* setSync, resetSync and __onSuccess deliver what is owed
SyncDelivers ==
    storeCall.op \in {"setSync", "resetSync", "__onSuccess"} =>
        storeCall.notified = Owed

\* C15: no subscriber is invoked by set, unset or reset, nor by unsetSync
\* called with a field name that is not in the snapshot.
C15_SilentCalls ==
    /\ storeCall.op \in {"set", "unset", "reset"} =>
          storeCall.notified = <<>>
    /\ storeCall.op = "unsetSync"
       /\ storeCall.before[storeCall.name] = Absent =>
          storeCall.notified = <<>>

\* unsetSync of a field the snapshot does not hold, on a store with
\* subscribers, notified nobody
C15_Witness ==
    /\ subscribers # <<>>
    /\ storeCall.op = "unsetSync"
    /\ storeCall.before[storeCall.name] = Absent
    /\ storeCall.notified = <<>>

\* C16: with at least one subscriber registered, every setSync call
\* notifies the subscribers, and every unsetSync call on a field that exists
\* in the snapshot removes the field and notifies the subscribers.
C16_SyncCallsNotify ==
    subscribers # <<>> =>
        /\ storeCall.op = "setSync" =>
              NotifiedOnce /\ storeCall.notified # <<>>
        /\ storeCall.op = "unsetSync"
           /\ storeCall.before[storeCall.name] # Absent =>
              /\ state[storeCall.name] = Absent
              /\ NotifiedOnce /\ storeCall.notified # <<>>

\* unsetSync notifies nobody, whatever the field
UnsetSyncIsSilent ==
    storeCall.op = "unsetSync" => storeCall.notified = <<>>

\* C19: for every field name present in the snapshot, whatever the field's
\* value, unset(name) yields a snapshot without that field and with every
\* other field unchanged; unset of a name not present leaves the snapshot
\* unchanged.
C19_UnsetRemovesField ==
    storeCall.op = "unset" => state = omit(storeCall.before, storeCall.name)

\* unset removes the fields whose value is truthy and no other
UnsetRemovesTruthy ==
    storeCall.op \in {"unset", "unsetSync"} =>
        state = IF Falsy(storeCall.before[storeCall.name])
                THEN storeCall.before
                ELSE omit(storeCall.before, storeCall.name)

----------------------------------------------------------------------------
(* Properties of the store's subscribers *)

\* no two active subscribers have the same function name
UniqueSubscriberNames ==
    \A i, j \in 1..Len(subscribers) :
        subscribers[i].name = subscribers[j].name => i = j

\* what a subscribe or unsubscribe call leaves behind
SubscribeByName ==
    LET callback == storeCall'.callable
    IN  /\ storeCall'.op \in {"subscribe", "unsubscribe"} =>
              /\ UniqueSubscriberNames'
              /\ ~NamedFunction(callback) =>
                    /\ storeCall'.returned = "false"
                    /\ subscribers' = subscribers
        /\ storeCall'.op = "subscribe" /\ NamedFunction(callback) =>
              Cardinality(NamedAt(subscribers', callback.name)) = 1
        /\ storeCall'.op = "unsubscribe" /\ NamedFunction(callback) =>
              NamedAt(subscribers', callback.name) = {}

\* C17: after any sequence of subscribe and unsubscribe calls no two active
\* subscribers have the same function name: subscribing a callback whose
\* name is that of an active subscriber leaves exactly one active subscriber
\* of that name, unsubscribe with any callback of that name leaves none, and
\* subscribe/unsubscribe with an anonymous or non-function value returns
\* false and leaves the subscriber list unchanged.
C17_SubscribersByName == [][SubscribeByName]_vars

\* a store whose subscribers have distinct names keeps them distinct
DistinctStayDistinct == [][UniqueSubscriberNames => SubscribeByName]_vars

----------------------------------------------------------------------------
(* Properties of the store's arguments *)

\* the value getArg owes for a declared argument: the snapshot's value when
\* the snapshot holds the field, else the declared default, else null
Effective(declared, st, name) ==
    IF st[name] # Absent THEN st[name]
    ELSE IF declared[name].value # Undefined THEN declared[name].value
    ELSE "null"

\* getArg returns the effective value, and query() leaves every declaration
\* as it found it
GetArgEffective ==
    /\ storeCall'.op = "getArg" /\ storeArgs'[storeCall'.name].declared =>
          storeCall'.returned =
              Effective(storeArgs', state', storeCall'.name)
    /\ storeCall'.op = "query" => storeArgs' = storeArgs

\* C18: getArg(name) for a declared argument returns the snapshot's value
\* for name when the snapshot holds that field (whatever its value,
\* including 0), otherwise the argument's declared default, otherwise null;
\* issuing query() does not change the declared default that getArg falls
\* back to once the snapshot field is later removed.
C18_GetArgEffective == [][GetArgEffective]_vars

\* getArg returns the effective value whenever the snapshot's value is not
\* a falsy one
GetArgOfTruthy ==
    storeCall.op = "getArg" /\ storeArgs[storeCall.name].declared
    /\ ~(state[storeCall.name] # Absent /\ Falsy(state[storeCall.name])) =>
        storeCall.returned = Effective(storeArgs, state, storeCall.name)

\* query() writes the effective value of every declared argument over its
\* declared default
QueryOverwritesDefaults ==
    [][storeCall'.op = "query" =>
          \A f \in Fields :
              storeArgs[f].declared =>
                  storeArgs'[f].value = getArg(storeArgs, state, f)]_vars

----------------------------------------------------------------------------
(* Properties of concurrent fetches *)

\* a query() call is in flight once it returned, holding its callbacks;
\* the response to it invokes the call's own callback once: onSuccess for a
\* payload, onError for an error
FetchOwnCallbacks ==
    /\ storeCall'.op = "query" =>
          /\ storeCall'.threw = ""
          /\ storeCall'.returned = "promise"
          /\ successCallback' = storeCall'.onSuccess
          /\ errorCallback' = storeCall'.onError
    /\ storeCall'.op = "__onSuccess" /\ ~Falsy(successCallback) =>
          /\ Len(storeCall'.invoked) = 1
          /\ storeCall'.invoked[1].callback = successCallback
    /\ storeCall'.op = "__onError" /\ ~Falsy(errorCallback) =>
          /\ Len(storeCall'.invoked) = 1
          /\ storeCall'.invoked[1].callback = errorCallback

\* C20: when two query() calls on the same store are in flight at once,
\* each with its own onSuccess/onError, each call's own callback is the one
\* invoked for that call's outcome, exactly once, for every order in which
\* the responses arrive, and no call's callback is lost or invoked for the
\* other call's response.
C20_FetchOwnCallbacks == [][FetchOwnCallbacks]_vars

\* a query() call leaves the callbacks of an earlier call, still awaiting
\* its response, where they are
AwaitingKept ==
    [][storeCall'.op = "query" /\ ~Falsy(successCallback) =>
          successCallback' = successCallback]_vars

----------------------------------------------------------------------------
(* Properties of concurrent exec calls *)

\* C21: when two exec calls on the same registry are in flight at once, the
\* error map each of them resolves with reflects only its own response: an
\* exec on a registry that holds an entry is in flight once it returned, and
\* an exec whose response carries no errors resolves with an empty error
\* map, whatever the response to the other exec produced.
C21_OwnErrorMap ==
    /\ lastCall.op = "exec" /\ HasEntries =>
          lastCall.outcome.kind = "pending"
    /\ lastCall.op = "settle" /\ CarriesNoErrors(lastCall.answer) =>
          /\ lastCall.outcome.kind = "resolved"
          /\ lastCall.outcome.errors = EmptyMap

\* __handleResponse called on the registry with a response that carries no
\* errors returns an empty error map
HandleResponseOwnErrors ==
    lastCall.op = "__handleResponse" /\ CarriesNoErrors(lastCall.answer)
    /\ lastCall.outcome.kind = "return" =>
        lastCall.outcome.errors = EmptyMap

\* no exec call of the registry is ever in flight
NoneInFlight == inflight = <<>>

====
